---------------------------- MODULE Spec2Model ----------------------------
(***************************************************************************)
(* Feed health monitor (CRE workflow): one cron-triggered handler,         *)
(* onCronTrigger, in two source variants:                                  *)
(*   "main"  src/my-workflow/main.ts  (try/catch, progress log lines)      *)
(*   "part"  src/unnamed/part_000     (no try/catch, await+decode in turn) *)
(* The handler is modelled statement by statement (Program), the three     *)
(* EVM read calls resolve in any order (Resolve), and the wall clock is    *)
(* an input drawn when the handler reads it.                               *)
(*                                                                         *)
(* Numbers: the clock is in integer milliseconds, updatedAt in integer    *)
(* seconds, the threshold in integer minutes; stalenessMinutes is the      *)
(* rational stalenessMs / 60000 and is compared exactly.                   *)
(***************************************************************************)
EXTENDS Integers, Sequences, FiniteSets, TLC

VARIABLES
    variant,    \* which source file's handler runs
    cfg,        \* runtime.config
    feed,       \* per call: <<>> or <<response>>, the capability's answer
    phase,      \* "idle" | "running" | "catch" | "done" | "failed"
    pc,         \* index of the next statement of Program(variant)
    sent,       \* the requests handed to evmClient.callContract, in order
    calls,      \* per call: "idle" | "pending" | "resolved"
    arrival,    \* the calls in the order their responses arrived
    raw,        \* per call: <<>> or <<response>> once .result() returned it
    loc,        \* the handler's local constants, each <<>> until assigned
    log,        \* the lines given to runtime.log, in order
    err,        \* <<>> or <<error>>: the error thrown out of the try body
    ret,        \* <<>> or <<summary>>: the value returned to the caller
    thrown,     \* <<>> or <<error>>: the error that left the handler
    clockReads, \* how often this evaluation read the wall clock
    ref         \* history: <<>> or <<the first finished run>> (SpecOrder)

vars == <<variant, cfg, feed, phase, pc, sent, calls, arrival, raw, loc, log,
          err, ret, thrown, clockReads, ref>>

-----------------------------------------------------------------------------
(* Bounds of the model *)

MaxThreshold == 2
MaxNowHalfMinutes == 14
MaxUpdatedMinutes == 1

(* Program constants *)

AddressHexDigits == 40
WarnFactor == 3
MsPerMinute == 60000
MsPerSecond == 1000
PriceDigits == 2
StalenessDigits == 1

CallNames == {"description", "decimals", "latestRoundData"}

Variants == {"main", "part"}

-----------------------------------------------------------------------------
(* Configuration inputs and configSchema *)

HexDigitChars ==
    {"0", "1", "2", "3", "4", "5", "6", "7", "8", "9",
     "a", "b", "c", "d", "e", "f", "A", "B", "C", "D", "E", "F"}

(* A string is written as its runs of equal characters, <<ch, n>> for n
   times ch: "0xaaa" is << <<"0", 1>>, <<"x", 1>>, <<"a", 3>> >> *)
RECURSIVE StrLen(_)
StrLen(s) == IF s = <<>> THEN 0 ELSE s[1][2] + StrLen(Tail(s))

RECURSIVE CharAt(_, _)
CharAt(s, i) == IF i <= s[1][2] THEN s[1][1] ELSE CharAt(Tail(s), i - s[1][2])

HexBody == << <<"d", 20>>, <<"7", 10>>, <<"F", 9>> >>

GoodAddress == << <<"0", 1>>, <<"x", 1>> >> \o HexBody \o << <<"3", 1>> >>

AddressInputs ==
    { GoodAddress,
      HexBody \o << <<"3", 1>> >>,                                  \* no 0x
      << <<"0", 1>>, <<"X", 1>> >> \o HexBody \o << <<"3", 1>> >>,  \* 0X
      << <<"0", 1>>, <<"x", 1>> >> \o HexBody,                      \* short
      << <<"0", 1>>, <<"x", 1>> >> \o HexBody \o << <<"3", 2>> >>,  \* long
      << <<"0", 1>>, <<"x", 1>>, <<"Z", 1>> >> \o HexBody,          \* not hex
      << <<"0", 1>>, <<"x", 1>> >> \o HexBody \o << <<"g", 1>> >> } \* not hex

ThresholdInputs == (-1)..MaxThreshold

ScheduleInputs == {"", "0 */10 * * * *"}

FeedNameInputs == {"", "ETH/USD"}

ChainSelectorInputs == {"", "ethereum-mainnet-base-1", "no-such-chain"}

ConfigInputs ==
    [schedule : ScheduleInputs,
     feedAddress : AddressInputs,
     feedName : FeedNameInputs,
     stalenessThresholdMinutes : ThresholdInputs,
     chainSelectorName : ChainSelectorInputs,
     isTestnet : BOOLEAN]

(* Variation: the pattern without its anchors, /0x[a-fA-F0-9]{40}/ *)
AddressMatchesUnanchored(s) ==
    \E k \in 1..(StrLen(s) - AddressHexDigits - 1) :
        /\ CharAt(s, k) = "0"
        /\ CharAt(s, k + 1) = "x"
        /\ \A i \in (k + 2)..(k + 1 + AddressHexDigits) :
              CharAt(s, i) \in HexDigitChars

(* feedAddress: z.string().regex(/^0x[a-fA-F0-9]{40}$/) *)
AddressMatches(s) ==
    /\ StrLen(s) = 2 + AddressHexDigits
    /\ CharAt(s, 1) = "0"
    /\ CharAt(s, 2) = "x"
    /\ \A i \in 3..StrLen(s) : CharAt(s, i) \in HexDigitChars

(* stalenessThresholdMinutes: z.number().positive() *)
ThresholdPositive(t) == t > 0

(* schedule, feedName, chainSelectorName: z.string(); any string passes,
   the empty one included (no .min(1), no .nonempty()) *)
StringAccepted(s) == TRUE

(* configSchema.parse: the paths of the issues zod collects; it throws a
   ZodError when there is any *)
ConfigIssues(c) ==
    {f \in {"schedule"} : ~StringAccepted(c.schedule)}
    \cup {f \in {"feedAddress"} : ~AddressMatches(c.feedAddress)}
    \cup {f \in {"feedName"} : ~StringAccepted(c.feedName)}
    \cup {f \in {"stalenessThresholdMinutes"} :
            ~ThresholdPositive(c.stalenessThresholdMinutes)}
    \cup {f \in {"chainSelectorName"} : ~StringAccepted(c.chainSelectorName)}

-----------------------------------------------------------------------------
(* The environment: network table, chain responses, wall clock *)

(* getNetwork({chainFamily: "evm", chainSelectorName, isTestnet}) yields a
   network or undefined; the networks the SDK knows, as far as the inputs
   reach *)
KnownNetworks == {<<"ethereum-mainnet-base-1", FALSE>>}

NetworkFound(c) == <<c.chainSelectorName, c.isTestnet>> \in KnownNetworks

(* A response to one read: the call failed, or it returned bytes that do or
   do not match the ABI's output schema.  str, num and tuple hold what the
   bytes decode to. *)
Response(o, s, n, t) == [outcome |-> o, str |-> s, num |-> n, tuple |-> t]

CallFails == Response("fail", "", 0, <<>>)

Malformed == Response("malformed", "", 0, <<>>)

DescriptionInputs == {CallFails, Malformed, Response("ok", "ETH / USD", 0, <<>>)}

DecimalsInputs == {CallFails, Malformed, Response("ok", "", 2, <<>>)}

UpdatedAtInputs == {m * 60 : m \in 0..MaxUpdatedMinutes}

AnswerInputs == {200050, -150}

(* <<roundId, answer, startedAt, updatedAt, answeredInRound>> *)
RoundInputs ==
    {CallFails, Malformed}
    \cup {Response("ok", "", 0, <<7, a, u, u, 7>>) :
            a \in AnswerInputs, u \in UpdatedAtInputs}

ResponseInputs(c) ==
    CASE c = "description" -> DescriptionInputs
      [] c = "decimals" -> DecimalsInputs
      [] c = "latestRoundData" -> RoundInputs

(* new Date() / Date.now(), in milliseconds *)
ClockInputs == {h * (MsPerMinute \div 2) : h \in 0..MaxNowHalfMinutes}

-----------------------------------------------------------------------------
(* The handler as its sequence of statements *)

S(op, arg) == [op |-> op, arg |-> arg]

ProgramMain ==
    << S("validate", "config"),            \* 71
       S("log", "rule"),                   \* 73
       S("log", "title"),                  \* 74
       S("log", "rule"),                   \* 75
       S("getNetwork", "evm"),             \* 78-86
       S("log", "step1"),                  \* 92
       S("call", "description"),           \* 110
       S("call", "decimals"),              \* 119
       S("call", "latestRoundData"),       \* 128
       S("log", "step2"),                  \* 138
       S("result", "description"),         \* 140
       S("result", "decimals"),            \* 141
       S("result", "latestRoundData"),     \* 142
       S("decode", "description"),         \* 144
       S("log", "feedEarly"),              \* 150
       S("decode", "decimals"),            \* 152
       S("log", "decimals"),               \* 158
       S("decode", "latestRoundData"),     \* 160
       S("classify", "status"),            \* 167-181
       S("log", "rule"),                   \* 183
       S("log", "feed"),                   \* 184
       S("log", "price"),                  \* 185
       S("log", "roundId"),                \* 186
       S("log", "updated"),                \* 187
       S("log", "staleness"),              \* 188
       S("log", "status"),                 \* 189
       S("log", "rule"),                   \* 190
       S("summary", "summary"),            \* 192
       S("log", "summary"),                \* 193
       S("return", "summary") >>           \* 194

ProgramPart ==
    << S("validate", "config"),            \* 54
       S("log", "title"),                  \* 56
       S("getNetwork", "evm"),             \* 58-66
       S("call", "description"),           \* 86
       S("call", "decimals"),              \* 91
       S("call", "latestRoundData"),       \* 96
       S("result", "description"),         \* 104
       S("decode", "description"),         \* 101
       S("result", "decimals"),            \* 110
       S("decode", "decimals"),            \* 107
       S("result", "latestRoundData"),     \* 116
       S("decode", "latestRoundData"),     \* 113
       S("classify", "status"),            \* 119-125
       S("log", "feed"),                   \* 127
       S("log", "price"),                  \* 128
       S("log", "roundId"),                \* 129
       S("log", "updated"),                \* 130
       S("log", "staleness"),              \* 131
       S("log", "status"),                 \* 132
       S("summary", "summary"),            \* 134
       S("return", "summary") >>           \* 134

(* Variation: each call is submitted, awaited and decoded before the next
   is submitted *)
ProgramSequential(v) ==
    << S("validate", "config"),
       S("log", "title"),
       S("getNetwork", "evm"),
       S("call", "description"),
       S("result", "description"),
       S("decode", "description"),
       S("call", "decimals"),
       S("result", "decimals"),
       S("decode", "decimals"),
       S("call", "latestRoundData"),
       S("result", "latestRoundData"),
       S("decode", "latestRoundData"),
       S("classify", "status"),
       S("log", "feed"),
       S("log", "price"),
       S("log", "roundId"),
       S("log", "updated"),
       S("log", "staleness"),
       S("log", "status"),
       S("summary", "summary"),
       S("return", "summary") >>

(* Variation: the report opens with the status line and closes with the
   feed line *)
ProgramStatusFirst(v) ==
    LET P == IF v = "main" THEN ProgramMain ELSE ProgramPart
    IN  [i \in 1..Len(P) |->
            IF P[i] = S("log", "feed") THEN S("log", "status")
            ELSE IF P[i] = S("log", "status") THEN S("log", "feed")
            ELSE P[i]]

(* Variation: the decimals read is awaited but was never submitted *)
ProgramAwaitsUnsent(v) ==
    LET P == IF v = "main" THEN ProgramMain ELSE ProgramPart
    IN  [i \in 1..Len(P) |->
            IF P[i] = S("call", "decimals") THEN S("log", "title") ELSE P[i]]

Program(v) == IF v = "main" THEN ProgramMain ELSE ProgramPart

(* main.ts wraps the body in try { } catch (error) { log; throw error } *)
HasCatch(v) == v = "main"

Stmt == Program(variant)[pc]

Running(op) == phase = "running" /\ pc \in 1..Len(Program(variant)) /\ Stmt.op = op

-----------------------------------------------------------------------------
(* Step 3 of the handler: price, staleness, status; and the formatting *)

RECURSIVE Pow10(_)
Pow10(d) == IF d = 0 THEN 1 ELSE 10 * Pow10(d - 1)

(* (num / den).toFixed(digits): the integer n for which n / 10^digits is
   nearest to num / den, the larger n on a tie; num >= 0, den > 0 *)
RoundHalfUp(num, den, digits) ==
    (2 * num * Pow10(digits) + den) \div (2 * den)

(* Number.prototype.toFixed: a negative x is formatted as "-" followed by
   the digits of -x (so -0.04 gives "-0.0") *)
ToFixed(num, den, digits) ==
    IF num < 0
      THEN [neg |-> TRUE, n |-> RoundHalfUp(-num, den, digits)]
      ELSE [neg |-> FALSE, n |-> RoundHalfUp(num, den, digits)]

(* stalenessMinutes < minutes, with stalenessMinutes = stalenessMs / 60000 *)
MinutesBelow(stalenessMs, minutes) == stalenessMs < minutes * MsPerMinute

(* Variation: the comparisons with <= in place of < *)
StatusOfInclusive(stalenessMs, threshold) ==
    IF stalenessMs <= threshold * MsPerMinute THEN "OK"
    ELSE IF stalenessMs <= threshold * WarnFactor * MsPerMinute THEN "WARN"
    ELSE "FAIL"

(* if (s < t) "OK" else if (s < t * 3) "WARN" else "FAIL" *)
StatusOf(stalenessMs, threshold) ==
    IF MinutesBelow(stalenessMs, threshold) THEN "OK"
    ELSE IF MinutesBelow(stalenessMs, threshold * WarnFactor) THEN "WARN"
    ELSE "FAIL"

(* Number(answer) / Math.pow(10, decimals), kept as a fraction *)
PriceOf(answer, decimals) == [num |-> answer, den |-> Pow10(decimals)]

(* new Date(Number(updatedAt) * 1000).getTime() *)
UpdatedAtMs(updatedAt) == updatedAt * MsPerSecond

(* The returned template literal, piece by piece.  main.ts:
     `${feedName}: ${status} (${price.toFixed(2)}, ${s.toFixed(1)}m stale)`
   part_000:
     `${feedName}: ${status} ($${price.toFixed(2)}, ${s.toFixed(1)}m)`     *)
SummaryOf(v, feedName, status, price, stalenessMs) ==
    [feedName |-> feedName,
     sep |-> ": ",
     status |-> status,
     open |-> IF v = "main" THEN " (" ELSE " ($",
     price |-> ToFixed(price.num, price.den, PriceDigits),
     comma |-> ", ",
     staleness |-> ToFixed(stalenessMs, MsPerMinute, StalenessDigits),
     close |-> IF v = "main" THEN "m stale)" ELSE "m)"]

-----------------------------------------------------------------------------
(* State *)

NoLocals ==
    [network |-> <<>>, description |-> <<>>, decimals |-> <<>>,
     round |-> <<>>, price |-> <<>>, updatedAtMs |-> <<>>, now |-> <<>>,
     stalenessMs |-> <<>>, status |-> <<>>, summary |-> <<>>]

Fresh ==
    /\ pc = 1
    /\ sent = <<>>
    /\ calls = [c \in CallNames |-> "idle"]
    /\ feed = [c \in CallNames |-> <<>>]
    /\ arrival = <<>>
    /\ raw = [c \in CallNames |-> <<>>]
    /\ loc = NoLocals
    /\ log = <<>>
    /\ err = <<>>
    /\ ret = <<>>
    /\ thrown = <<>>
    /\ clockReads = 0

Init ==
    /\ variant \in Variants
    /\ cfg \in ConfigInputs
    /\ phase = "idle"
    /\ Fresh
    /\ ref = <<>>

(* One line of runtime.log: its kind, and the values interpolated into it *)
Line(kind, s, n, v) == [kind |-> kind, s |-> s, n |-> n, v |-> v]

LineOf(kind) ==
    CASE kind = "rule" -> Line(kind, "", 0, <<>>)
      [] kind = "title" -> Line(kind, cfg.feedName, 0, <<>>)
      [] kind = "step1" -> Line(kind, "", 0, <<>>)
      [] kind = "step2" -> Line(kind, "", 0, <<>>)
      [] kind = "feedEarly" -> Line(kind, loc.description[1], 0, <<>>)
      [] kind = "decimals" -> Line(kind, "", loc.decimals[1], <<>>)
      [] kind = "feed" -> Line(kind, loc.description[1], 0, <<>>)
      [] kind = "price" ->
            Line(kind, "$", 0,
                 <<ToFixed(loc.price[1].num, loc.price[1].den, PriceDigits)>>)
      [] kind = "roundId" -> Line(kind, "", loc.round[1][1], <<>>)
      [] kind = "updated" -> Line(kind, "", loc.updatedAtMs[1], <<>>)
      [] kind = "staleness" ->
            Line(kind, "", 0,
                 <<ToFixed(loc.stalenessMs[1], MsPerMinute, StalenessDigits)>>)
      [] kind = "status" -> Line(kind, loc.status[1], 0, <<>>)
      [] kind = "summary" -> Line(kind, "", 0, loc.summary)

Error(origin, about, msg) == [origin |-> origin, about |-> about, msg |-> msg]

(* An exception leaves the statement at pc: main.ts enters its catch block,
   part_000 has none and the error leaves the handler at once *)
Throw(e) ==
    /\ err' = <<e>>
    /\ IF HasCatch(variant)
         THEN phase' = "catch" /\ thrown' = thrown
         ELSE phase' = "failed" /\ thrown' = <<e>>
    /\ pc' = pc

Advance ==
    /\ pc' = pc + 1
    /\ UNCHANGED <<phase, err, thrown>>

-----------------------------------------------------------------------------
(* Variation: the handler's locals live at module level and keep their
   values from one run to the next *)
StartKeepsLocals ==
    /\ phase \in {"idle", "done", "failed"}
    /\ phase' = "running"
    /\ feed' = [c \in CallNames |-> <<>>]
    /\ pc' = 1
    /\ sent' = <<>>
    /\ calls' = [c \in CallNames |-> "idle"]
    /\ arrival' = <<>>
    /\ raw' = [c \in CallNames |-> <<>>]
    /\ loc' = loc
    /\ log' = <<>>
    /\ err' = <<>>
    /\ ret' = <<>>
    /\ thrown' = <<>>
    /\ clockReads' = 0
    /\ UNCHANGED <<variant, cfg>>

-----------------------------------------------------------------------------
(* The cron trigger fires: a fresh run of the handler *)
Reset ==
    /\ phase \in {"idle", "done", "failed"}
    /\ phase' = "running"
    /\ feed' = [c \in CallNames |-> <<>>]
    /\ pc' = 1
    /\ sent' = <<>>
    /\ calls' = [c \in CallNames |-> "idle"]
    /\ arrival' = <<>>
    /\ raw' = [c \in CallNames |-> <<>>]
    /\ loc' = NoLocals
    /\ log' = <<>>
    /\ err' = <<>>
    /\ ret' = <<>>
    /\ thrown' = <<>>
    /\ clockReads' = 0

Start ==
    /\ Reset
    /\ UNCHANGED <<variant, cfg>>

Trigger ==
    /\ Start
    /\ UNCHANGED ref

(* configSchema.parse(config) *)
Validate ==
    /\ Running("validate")
    /\ IF ConfigIssues(cfg) = {}
         THEN Advance
         ELSE Throw(Error("validate", ConfigIssues(cfg), "ZodError"))
    /\ UNCHANGED <<variant, cfg, feed, sent, calls, arrival, raw, loc, log,
                   ret, clockReads, ref>>

(* runtime.log(...) *)
Log ==
    /\ Running("log")
    /\ log' = Append(log, LineOf(Stmt.arg))
    /\ Advance
    /\ UNCHANGED <<variant, cfg, feed, sent, calls, arrival, raw, loc, ret,
                   clockReads, ref>>

(* Variation: the handler without its if (!network) throw *)
GetNetworkUnchecked ==
    /\ phase = "running" /\ Program(variant)[pc].op = "getNetwork"
    /\ loc' = [loc EXCEPT !.network = <<NetworkFound(cfg)>>]
    /\ Advance
    /\ UNCHANGED <<variant, cfg, feed, sent, calls, arrival, raw, log, ret,
                   clockReads, ref>>

(* const network = getNetwork({...}); if (!network) throw new Error(...) *)
GetNetwork ==
    /\ Running("getNetwork")
    /\ loc' = [loc EXCEPT !.network = <<NetworkFound(cfg)>>]
    /\ IF NetworkFound(cfg)
         THEN Advance
         ELSE Throw(Error("getNetwork", {cfg.chainSelectorName},
                          "Network not found: "))
    /\ UNCHANGED <<variant, cfg, feed, sent, calls, arrival, raw, log, ret,
                   clockReads, ref>>

(* Variation: the call is read at the chain's head *)
RequestAtHead(fn) ==
    [fn |-> fn, from |-> "zeroAddress", to |-> cfg.feedAddress,
     blockNumber |-> "LATEST_BLOCK_NUMBER"]

(* encodeCallMsg({from: zeroAddress, to: feedAddr, data}) at
   LAST_FINALIZED_BLOCK_NUMBER; data is the selector of the function *)
Request(fn) ==
    [fn |-> fn, from |-> "zeroAddress", to |-> cfg.feedAddress,
     blockNumber |-> "LAST_FINALIZED_BLOCK_NUMBER"]

(* evmClient.callContract(runtime, {...}): submits, does not wait *)
Call ==
    /\ Running("call")
    /\ sent' = Append(sent, Request(Stmt.arg))
    /\ calls' = [calls EXCEPT ![Stmt.arg] = "pending"]
    /\ Advance
    /\ UNCHANGED <<variant, cfg, feed, arrival, raw, loc, log, ret,
                   clockReads, ref>>

(* The capability answers a submitted call with response r; the three
   calls are answered in any order *)
Resolve(c, r) ==
    /\ phase = "running"
    /\ calls[c] = "pending"
    /\ calls' = [calls EXCEPT ![c] = "resolved"]
    /\ feed' = [feed EXCEPT ![c] = <<r>>]
    /\ arrival' = Append(arrival, c)
    /\ UNCHANGED <<variant, cfg, phase, pc, sent, raw, loc, log, err, ret,
                   thrown, clockReads, ref>>

Answer == \E c \in CallNames : \E r \in ResponseInputs(c) : Resolve(c, r)

(* Variation: .result() fails as soon as any call answered so far failed *)
ResultOfFailFast(c) ==
    IF \E i \in 1..Len(arrival) : feed[arrival[i]][1].outcome = "fail"
      THEN CallFails
      ELSE feed[c][1]

(* What promise c's .result() yields: the answer to call c *)
ResultOf(c) == feed[c][1]

(* Variation: a failed call's result is replaced by a default answer *)
ResultDefaultsOnFailure ==
    /\ Running("result")
    /\ calls[Stmt.arg] = "resolved"
    /\ raw' = [raw EXCEPT ![Stmt.arg] =
                 IF ResultOf(Stmt.arg).outcome = "fail"
                   THEN <<CHOOSE r \in ResponseInputs(Stmt.arg) :
                             r.outcome = "ok">>
                   ELSE <<ResultOf(Stmt.arg)>>]
    /\ Advance
    /\ UNCHANGED <<variant, cfg, feed, sent, calls, arrival, loc, log, ret,
                   clockReads, ref>>

(* Variation: a failed call is submitted again *)
ResultRetries ==
    /\ Running("result")
    /\ calls[Stmt.arg] = "resolved"
    /\ IF ResultOf(Stmt.arg).outcome = "fail"
         THEN /\ sent' = Append(sent, sent[Len(sent)])
              /\ calls' = [calls EXCEPT ![Stmt.arg] = "pending"]
              /\ feed' = [feed EXCEPT ![Stmt.arg] = <<>>]
              /\ UNCHANGED <<raw, pc, phase, err, thrown>>
         ELSE /\ raw' = [raw EXCEPT ![Stmt.arg] = <<ResultOf(Stmt.arg)>>]
              /\ Advance
              /\ UNCHANGED <<sent, calls, feed>>
    /\ UNCHANGED <<variant, cfg, arrival, loc, log, ret, clockReads, ref>>

(* <promise>.result(): waits until the call is answered; throws when the
   call failed *)
Result ==
    /\ Running("result")
    /\ calls[Stmt.arg] = "resolved"
    /\ IF ResultOf(Stmt.arg).outcome = "fail"
         THEN /\ Throw(Error("result", {Stmt.arg}, "call failed"))
              /\ raw' = raw
         ELSE /\ raw' = [raw EXCEPT ![Stmt.arg] = <<ResultOf(Stmt.arg)>>]
              /\ Advance
    /\ UNCHANGED <<variant, cfg, feed, sent, calls, arrival, loc, log, ret,
                   clockReads, ref>>

(* decodeFunctionResult({abi, functionName, data}): the typed value, or an
   exception when the bytes do not match the output schema *)
Decoded(c, r) ==
    CASE c = "description" -> [loc EXCEPT !.description = <<r.str>>]
      [] c = "decimals" -> [loc EXCEPT !.decimals = <<r.num>>]
      [] c = "latestRoundData" -> [loc EXCEPT !.round = <<r.tuple>>]

Decode ==
    /\ Running("decode")
    /\ raw[Stmt.arg] # <<>>
    /\ IF raw[Stmt.arg][1].outcome = "malformed"
         THEN /\ Throw(Error("decode", {Stmt.arg}, "decode failed"))
              /\ loc' = loc
         ELSE /\ loc' = Decoded(Stmt.arg, raw[Stmt.arg][1])
              /\ Advance
    /\ UNCHANGED <<variant, cfg, feed, sent, calls, arrival, raw, log, ret,
                   clockReads, ref>>

(* price, updatedAtDate, now, stalenessMinutes, status *)
Classified(now) ==
    [loc EXCEPT
       !.price = <<PriceOf(loc.round[1][2], loc.decimals[1])>>,
       !.updatedAtMs = <<UpdatedAtMs(loc.round[1][4])>>,
       !.now = <<now>>,
       !.stalenessMs = <<now - UpdatedAtMs(loc.round[1][4])>>,
       !.status = <<StatusOf(now - UpdatedAtMs(loc.round[1][4]),
                             cfg.stalenessThresholdMinutes)>>]

(* Variation: the clock is read a second time for the status *)
ClassifyRereads(now) ==
    /\ Running("classify")
    /\ \E later \in ClockInputs :
          /\ later >= now
          /\ loc' = [Classified(now) EXCEPT
                       !.status = <<StatusOf(later - UpdatedAtMs(loc.round[1][4]),
                                             cfg.stalenessThresholdMinutes)>>]
    /\ clockReads' = clockReads + 2
    /\ Advance
    /\ UNCHANGED <<variant, cfg, feed, sent, calls, arrival, raw, log, ret,
                   ref>>

ClassifyAt(now) ==
    /\ Running("classify")
    /\ loc' = Classified(now)
    /\ clockReads' = clockReads + 1
    /\ Advance
    /\ UNCHANGED <<variant, cfg, feed, sent, calls, arrival, raw, log, ret,
                   ref>>

Classify == \E now \in ClockInputs : ClassifyAt(now)

(* the summary template literal *)
Summary ==
    /\ Running("summary")
    /\ loc' = [loc EXCEPT !.summary =
                 <<SummaryOf(variant, cfg.feedName, loc.status[1],
                             loc.price[1], loc.stalenessMs[1])>>]
    /\ Advance
    /\ UNCHANGED <<variant, cfg, feed, sent, calls, arrival, raw, log, ret,
                   clockReads, ref>>

(* return summary *)
Return ==
    /\ Running("return")
    /\ ret' = loc.summary
    /\ phase' = "done"
    /\ UNCHANGED <<variant, cfg, feed, pc, sent, calls, arrival, raw, loc,
                   log, err, thrown, clockReads, ref>>

(* Variation: the catch block logs the error and does not throw it again *)
CatchSwallows ==
    /\ phase = "catch"
    /\ log' = Append(log, Line("error", err[1].msg, 0, <<>>))
    /\ thrown' = <<>>
    /\ phase' = "done"
    /\ UNCHANGED <<variant, cfg, feed, pc, sent, calls, arrival, raw, loc,
                   err, ret, clockReads, ref>>

(* catch (error) { runtime.log(`ERROR: ...`); throw error; } *)
Catch ==
    /\ phase = "catch"
    /\ log' = Append(log, Line("error", err[1].msg, 0, <<>>))
    /\ thrown' = err
    /\ phase' = "failed"
    /\ UNCHANGED <<variant, cfg, feed, pc, sent, calls, arrival, raw, loc,
                   err, ret, clockReads, ref>>

Next ==
    \/ Trigger
    \/ Validate
    \/ Log
    \/ GetNetwork
    \/ Call
    \/ Answer
    \/ Result
    \/ Decode
    \/ Classify
    \/ Summary
    \/ Return
    \/ Catch

Spec == Init /\ [][Next]_vars

(* The runtime runs a triggered handler on until it returns or throws, and
   the capability answers every call that was submitted: each with success
   or with failure. *)
Step ==
    \/ Validate
    \/ Log
    \/ GetNetwork
    \/ Call
    \/ Result
    \/ Decode
    \/ Classify
    \/ Summary
    \/ Return
    \/ Catch

SpecLive == Init /\ [][Next]_vars /\ WF_vars(Step) /\ WF_vars(Answer)

-----------------------------------------------------------------------------
(* The same handler, run again and again against the same chain answers and
   clock reading: ref keeps the first finished run (the answers it got, the
   order they arrived in, its clock reading and what the caller saw of it),
   and a later run draws the same answer per call and the same clock
   reading, while the order of arrival stays free. *)

Outcome == [status |-> loc.status, ret |-> ret, thrown |-> thrown]

TriggerAgain ==
    /\ Start
    /\ ref' = IF ref = <<>> /\ phase \in {"done", "failed"}
                THEN <<[feed |-> feed, arrival |-> arrival, now |-> loc.now,
                        outcome |-> Outcome]>>
                ELSE ref

AnswerAgain ==
    \E c \in CallNames : \E r \in ResponseInputs(c) :
        /\ IF ref = <<>> THEN TRUE ELSE ref[1].feed[c] \in {<<>>, <<r>>}
        /\ Resolve(c, r)

ClassifyAgain ==
    \E now \in ClockInputs :
        /\ IF ref = <<>> THEN TRUE ELSE ref[1].now \in {<<>>, <<now>>}
        /\ ClassifyAt(now)

NextOrder ==
    \/ TriggerAgain
    \/ Validate
    \/ Log
    \/ GetNetwork
    \/ Call
    \/ AnswerAgain
    \/ Result
    \/ Decode
    \/ ClassifyAgain
    \/ Summary
    \/ Return
    \/ Catch

(* the configurations differ in what decides the run; schedule and
   feedName are held at their usual values *)
InitOrder ==
    /\ Init
    /\ cfg.schedule # ""
    /\ cfg.feedName # ""

SpecOrder == InitOrder /\ [][NextOrder]_vars

-----------------------------------------------------------------------------
(* The handler run again and again with whatever answers and clock each
   run meets: ref keeps the first finished run (its answers, its clock
   reading, what the caller saw of it), the runs after it are free.  The
   answers and clock readings are the ones that decide the outcome: each
   call fails, is malformed or succeeds, and the feed is fresh, stale or
   very stale. *)
HistoryResponses(c) ==
    {r \in ResponseInputs(c) :
        (c = "latestRoundData" /\ r.outcome = "ok") =>
            (r.tuple[2] = 200050 /\ r.tuple[4] = 0)}

HistoryClock ==
    {n \in ClockInputs :
        \E t \in ThresholdInputs :
            n \in {0, t * MsPerMinute, WarnFactor * t * MsPerMinute}}

TriggerRecord ==
    /\ Start
    /\ ref' = IF ref = <<>> /\ phase \in {"done", "failed"}
                THEN <<[feed |-> feed, arrival |-> <<>>, now |-> loc.now,
                        outcome |-> Outcome]>>
                ELSE ref

AnswerHistory ==
    \E c \in CallNames : \E r \in HistoryResponses(c) : Resolve(c, r)

ClassifyHistory == \E now \in HistoryClock : ClassifyAt(now)

NextHistory ==
    \/ TriggerRecord
    \/ Validate
    \/ Log
    \/ GetNetwork
    \/ Call
    \/ AnswerHistory
    \/ Result
    \/ Decode
    \/ ClassifyHistory
    \/ Summary
    \/ Return
    \/ Catch

SpecHistory == InitOrder /\ [][NextHistory]_vars

-----------------------------------------------------------------------------
(* The two files of the handler run in turn against the same configuration,
   chain answers and clock reading: the first finished run is kept in ref
   together with the file it ran, every trigger after the first runs the
   other file, and a later run draws the answers and the clock reading of
   the first. *)
OtherVariant(v) == CHOOSE w \in Variants : w # v

TriggerOther ==
    /\ Reset
    /\ variant' = IF phase = "idle" THEN variant ELSE OtherVariant(variant)
    /\ cfg' = cfg
    /\ ref' = IF ref = <<>> /\ phase \in {"done", "failed"}
                THEN <<[variant |-> variant, feed |-> feed, arrival |-> <<>>,
                        now |-> loc.now, outcome |-> Outcome]>>
                ELSE ref

NextBoth ==
    \/ TriggerOther
    \/ Validate
    \/ Log
    \/ GetNetwork
    \/ Call
    \/ AnswerAgain
    \/ Result
    \/ Decode
    \/ ClassifyAgain
    \/ Summary
    \/ Return
    \/ Catch

SpecBoth == InitOrder /\ [][NextBoth]_vars

-----------------------------------------------------------------------------
(* Vocabulary of the properties *)

(* the order of the three .result() calls: main.ts 140-142, part_000 104,
   110, 116 *)
AwaitOrder == <<"description", "decimals", "latestRoundData">>

Rank(c) == CHOOSE i \in 1..Len(AwaitOrder) : AwaitOrder[i] = c

FailedCalls == {c \in CallNames : feed[c] = <<CallFails>>}

LogHas(kinds) == \E i \in 1..Len(log) : log[i].kind \in kinds

Dispatched(c) == Cardinality({i \in 1..Len(sent) : sent[i].fn = c})

Failing == phase \in {"catch", "failed"}

Raised(origin) == err # <<>> /\ err[1].origin = origin

(* the lines of the human report, and the lines that show decoded values *)
ReportKinds == {"feed", "price", "roundId", "updated", "staleness", "status"}

ValueKinds == ReportKinds \cup {"feedEarly", "decimals", "summary"}

-----------------------------------------------------------------------------
(* C1: for every threshold t > 0 and staleness s (negative included) the
   status is OK when s < t, WARN when t <= s < 3t, FAIL when s >= 3t; so
   s = t gives WARN and s = 3t gives FAIL.  s is stalenessMs / 60000. *)
C1_Classification ==
    loc.status # <<>> =>
        LET t == cfg.stalenessThresholdMinutes * 60000
            s == loc.stalenessMs[1]
        IN  /\ t > 0
            /\ s = loc.now[1] - 1000 * loc.round[1][4]
            /\ s < t => loc.status[1] = "OK"
            /\ (t <= s /\ s < 3 * t) => loc.status[1] = "WARN"
            /\ s >= 3 * t => loc.status[1] = "FAIL"

(* the boundary s = t is classified, as WARN *)
C1_Witness ==
    /\ loc.status = <<"WARN">>
    /\ loc.stalenessMs[1] = cfg.stalenessThresholdMinutes * 60000

(* further cases of C1 that the inputs reach *)
C1_WitnessFailBoundary ==
    /\ loc.status = <<"FAIL">>
    /\ loc.stalenessMs[1] = 3 * cfg.stalenessThresholdMinutes * 60000

C1_WitnessNegative == loc.status = <<"OK">> /\ loc.stalenessMs[1] < 0

(* C2: when one of the three reads fails, the run ends in failure: no
   status is ever computed, no price or status line is logged and nothing
   is returned. *)
C2_CallFailureAborts ==
    (\E c \in CallNames : feed[c] = <<CallFails>>) =>
        /\ loc.status = <<>>
        /\ ~LogHas({"price", "status", "summary"})
        /\ ret = <<>>
        /\ phase # "done"
        /\ Raised("result") => Failing

C2_Witness ==
    /\ phase = "failed"
    /\ Raised("result")
    /\ thrown = err
    /\ err[1].about = {"latestRoundData"}
    /\ raw.description # <<>>
    /\ raw.decimals # <<>>

(* C3: all three reads are submitted before the result of any is awaited. *)
C3_SubmitBeforeAwait ==
    (\/ Running("result")
     \/ \E c \in CallNames : raw[c] # <<>>
     \/ Raised("result")) =>
        \A c \in CallNames : Dispatched(c) >= 1 /\ calls[c] # "idle"

(* the handler waits on its first result with all three calls in flight *)
C3_Witness ==
    /\ Running("result")
    /\ \A c \in CallNames : raw[c] = <<>> /\ calls[c] = "pending"

(* C4: when getNetwork finds no network for (chainSelectorName, isTestnet),
   the run fails with the network error and no read is ever dispatched. *)
C4_NetworkNotFound ==
    (/\ phase # "idle"
     /\ <<cfg.chainSelectorName, cfg.isTestnet>> \notin KnownNetworks) =>
        /\ sent = <<>>
        /\ \A c \in CallNames : calls[c] = "idle"
        /\ phase # "done"
        /\ loc.network # <<>> => (Failing /\ Raised("getNetwork"))

C4_Witness ==
    /\ phase = "failed"
    /\ thrown # <<>>
    /\ thrown[1].origin = "getNetwork"
    /\ loc.network = <<FALSE>>
    /\ sent = <<>>

(* C5: a feedAddress that does not match ^0x[a-fA-F0-9]{40}$ or a threshold
   that is not strictly positive fails the run at validation, before network
   resolution and with no read dispatched. *)
C5_AddressRejected(a) ==
    \/ StrLen(a) # 42
    \/ CharAt(a, 1) # "0"
    \/ CharAt(a, 2) # "x"
    \/ \E i \in 3..StrLen(a) : CharAt(a, i) \notin HexDigitChars

C5_InvalidConfigFails ==
    (/\ phase # "idle"
     /\ \/ C5_AddressRejected(cfg.feedAddress)
        \/ cfg.stalenessThresholdMinutes <= 0) =>
        /\ pc = 1
        /\ loc.network = <<>>
        /\ sent = <<>>
        /\ phase # "done"
        /\ phase # "running" => (Failing /\ Raised("validate"))

C5_Witness ==
    /\ phase = "failed"
    /\ thrown # <<>>
    /\ thrown[1].origin = "validate"
    /\ thrown[1].about = {"feedAddress", "stalenessThresholdMinutes"}
    /\ loc.network = <<>>
    /\ sent = <<>>

(* C6: a configuration whose schedule, feedName or chainSelectorName is the
   empty string is rejected: it never leads to network resolution, a
   dispatched call or a report. *)
C6_EmptyStringsRejected ==
    (/\ phase # "idle"
     /\ \/ cfg.schedule = ""
        \/ cfg.feedName = ""
        \/ cfg.chainSelectorName = "") =>
        /\ loc.network = <<>>
        /\ sent = <<>>
        /\ ~LogHas(ReportKinds)
        /\ ret = <<>>

(* C7: each of the three reads is dispatched at most once, exactly once
   when the dispatch statements have run, and a status exists only when all
   three calls have resolved successfully. *)
C7_OneCallEach ==
    /\ \A c \in CallNames : Dispatched(c) <= 1
    /\ (sent # <<>> /\ ~Running("call")) =>
          \A c \in CallNames : Dispatched(c) = 1
    /\ loc.status # <<>> =>
          \A c \in CallNames :
             /\ calls[c] = "resolved"
             /\ feed[c] # <<>>
             /\ feed[c][1].outcome = "ok"
             /\ raw[c] = feed[c]

C7_Witness ==
    /\ loc.status # <<>>
    /\ Len(sent) = 3
    /\ \A c \in CallNames : Dispatched(c) = 1

(* C8: for fixed call results the outcome of a run (status, returned
   summary, or the error) is the same under every order in which the three
   calls resolve.  Checked under SpecOrder: whatever the first run's
   outcome, a later run over the same answers and clock ends the same. *)
C8_OrderIndependent ==
    (ref # <<>> /\ phase \in {"done", "failed"}) =>
        Outcome = ref[1].outcome

(* two successful runs whose calls resolved in different orders *)
C8_Witness ==
    /\ ref # <<>>
    /\ phase = "done"
    /\ ref[1].outcome.ret # <<>>
    /\ Len(arrival) = 3
    /\ ref[1].arrival # arrival

(* two failed runs, the failing call answered first in one, last in the
   other *)
C8_WitnessFailure ==
    /\ ref # <<>>
    /\ phase = "failed"
    /\ Raised("result")
    /\ err[1].about = {"decimals"}
    /\ Len(arrival) = 3
    /\ arrival[1] = "decimals"
    /\ Len(ref[1].arrival) = 3
    /\ ref[1].arrival[3] = "decimals"

(* C9: when decoding one of the three raw results fails, the run fails with
   the decode error, no default value stands in, and no line of the report
   (the description and decimals lines included) has been logged. *)
C9_LocalOf(c) ==
    CASE c = "description" -> loc.description
      [] c = "decimals" -> loc.decimals
      [] c = "latestRoundData" -> loc.round

C9_DecodeFailureNoReport ==
    Raised("decode") =>
        /\ Failing
        /\ \A c \in err[1].about : C9_LocalOf(c) = <<>>
        /\ loc.status = <<>>
        /\ ret = <<>>
        /\ ~LogHas(ValueKinds)

(* C10: a run moves only forward through Idle, Validating, Dispatching,
   Decoding, Classifying, Reporting, Done, any stage may move to Failed,
   and after Done or Failed nothing more happens in that run.

   The stage of a state: of a statement, the component of section 4 it
   belongs to (network resolution, submitting and awaiting are the
   dispatcher's); of a progress log line, the stage of the statement that
   follows it. *)
RECURSIVE StageAt(_, _)
StageAt(v, i) ==
    LET st == Program(v)[i]
    IN  CASE st.op = "validate" -> 1
          [] st.op \in {"getNetwork", "call", "result"} -> 2
          [] st.op = "decode" -> 3
          [] st.op = "classify" -> 4
          [] st.op \in {"summary", "return"} -> 5
          [] st.op = "log" ->
                IF st.arg \in ReportKinds \cup {"summary"}
                  THEN 5
                  ELSE StageAt(v, i + 1)

Stage ==
    CASE phase = "idle" -> 0
      [] phase = "running" -> StageAt(variant, pc)
      [] phase = "done" -> 6
      [] phase \in {"catch", "failed"} -> 7

C10_Step ==
    /\ phase \notin {"done", "failed"} => Stage' >= Stage
    /\ phase \in {"done", "failed"} =>
          \/ UNCHANGED <<phase, pc, sent, log, ret, thrown, loc>>
          \/ phase' = "running" /\ pc' = 1 /\ sent' = <<>> /\ log' = <<>>
                /\ ret' = <<>> /\ thrown' = <<>> /\ loc' = NoLocals

C10_ForwardOnly == [][C10_Step]_vars

(* the same, of the handler of main.ts alone *)
C10_ForwardOnlyMain == [][variant = "main" => C10_Step]_vars

(* after Done or Failed nothing more happens in the run, in either file *)
C10_Terminal ==
    [][(phase = "done" \/ phase = "failed") => C10_Step]_vars

-----------------------------------------------------------------------------
(* C11: every read an evaluation dispatches carries the last-finalized
   block reference, the zero address as sender and the configured
   feedAddress as target; none goes to a head block or another address. *)
C11_PinnedRequests ==
    \A i \in 1..Len(sent) :
        /\ sent[i].blockNumber = "LAST_FINALIZED_BLOCK_NUMBER"
        /\ sent[i].from = "zeroAddress"
        /\ sent[i].to = cfg.feedAddress
        /\ sent[i].fn \in CallNames

C11_Witness ==
    /\ Len(sent) = 3
    /\ {sent[i].fn : i \in 1..3} = CallNames
    /\ \A i \in 1..3 : sent[i].to = GoodAddress

-----------------------------------------------------------------------------
(* C12: when a read fails (and no answer is malformed), the evaluation
   aborts with the failure of a read that failed.  That error is raised at
   the failed read's .result() and is about that read and no other; the
   handler stops at that statement: every earlier read has been taken
   over, the failed read and the later ones never are, nothing is
   returned, and no failed answer is ever taken over. *)
NoneMalformed == \A c \in CallNames : feed[c] # <<Malformed>>

-----------------------------------------------------------------------------
(* C13: the string a successful evaluation returns is
   "<feedName>: <status> ($<price>, <stalenessMinutes>m)": a "$" directly
   before the price, and "m)" directly after the staleness. *)
C13_SummaryShape ==
    ret # <<>> =>
        /\ ret[1].feedName = cfg.feedName
        /\ ret[1].sep = ": "
        /\ ret[1].status = loc.status[1]
        /\ ret[1].open = " ($"
        /\ ret[1].price = ToFixed(loc.price[1].num, loc.price[1].den, PriceDigits)
        /\ ret[1].comma = ", "
        /\ ret[1].staleness =
              ToFixed(loc.stalenessMs[1], MsPerMinute, StalenessDigits)
        /\ ret[1].close = "m)"

(* the same, of part_000 alone *)
C13_SummaryShapePart == variant = "part" => C13_SummaryShape

-----------------------------------------------------------------------------
(* C14: the report lines are logged in the order feed, price, round id,
   updated, staleness, status, each once; none before the three results
   are decoded and the status is computed, and all six before the summary
   is returned. *)
ReportOrder == <<"feed", "price", "roundId", "updated", "staleness", "status">>

IsReportLine(l) == l.kind \in ReportKinds

ReportLog == SelectSeq(log, IsReportLine)

C14_ReportOrder ==
    /\ Len(ReportLog) <= Len(ReportOrder)
    /\ \A i \in 1..Len(ReportLog) : ReportLog[i].kind = ReportOrder[i]
    /\ ReportLog # <<>> =>
          /\ loc.description # <<>>
          /\ loc.decimals # <<>>
          /\ loc.round # <<>>
          /\ loc.status # <<>>
    /\ ret # <<>> => Len(ReportLog) = Len(ReportOrder)

C14_Witness ==
    /\ phase = "done"
    /\ ret # <<>>
    /\ Len(ReportLog) = 6
    /\ ReportLog[6].s = "FAIL"

-----------------------------------------------------------------------------
(* C15: provided every submitted read is eventually answered, with success
   or failure, every triggered evaluation eventually returns its summary
   or fails. *)
C15_Terminates ==
    (phase = "running") ~> (phase = "done" \/ phase = "failed")

(* an evaluation that had to wait for all three answers, the first awaited
   arriving last, and then finished *)
C15_Witness ==
    /\ phase = "done"
    /\ ret # <<>>
    /\ arrival = <<"latestRoundData", "decimals", "description">>

-----------------------------------------------------------------------------
(* C16: nothing carries over from one evaluation to the next: an
   evaluation that meets the same configuration, the same answers and the
   same clock reading as the first one ends as the first one did, whatever
   evaluations ran in between. *)
NowRead == IF clockReads = 0 THEN <<>> ELSE loc.now

C16_NoCarryOver ==
    (/\ ref # <<>>
     /\ phase \in {"done", "failed"}
     /\ feed = ref[1].feed
     /\ NowRead = ref[1].now) =>
        Outcome = ref[1].outcome

(* a failed run that repeats the first run's answers *)
C16_Witness ==
    /\ ref # <<>>
    /\ phase = "failed"
    /\ feed = ref[1].feed
    /\ feed.description # <<>>
    /\ Outcome = ref[1].outcome

(* a successful run that repeats the first run's answers and clock *)
C16_WitnessDone ==
    /\ ref # <<>>
    /\ phase = "done"
    /\ feed = ref[1].feed
    /\ NowRead = ref[1].now
    /\ ref[1].outcome.status = <<"WARN">>

-----------------------------------------------------------------------------
(* C17: an evaluation reads the wall clock once, after all three results
   are decoded; the staleness from that one reading decides the status (in
   both comparisons) and is the staleness shown in the report and in the
   summary. *)
StalenessRead == loc.now[1] - UpdatedAtMs(loc.round[1][4])

C17_OneClockReading ==
    /\ clockReads <= 1
    /\ (clockReads = 1) <=> (loc.now # <<>>)
    /\ loc.now # <<>> =>
          /\ loc.description # <<>>
          /\ loc.decimals # <<>>
          /\ loc.round # <<>>
          /\ loc.stalenessMs = <<StalenessRead>>
          /\ loc.status =
                <<StatusOf(StalenessRead, cfg.stalenessThresholdMinutes)>>
          /\ \A i \in 1..Len(log) :
                /\ log[i].kind = "staleness" =>
                      log[i].v = <<ToFixed(StalenessRead, MsPerMinute,
                                           StalenessDigits)>>
                /\ log[i].kind = "status" =>
                      log[i].s = StatusOf(StalenessRead,
                                          cfg.stalenessThresholdMinutes)
    /\ ret # <<>> =>
          /\ ret[1].staleness =
                ToFixed(StalenessRead, MsPerMinute, StalenessDigits)
          /\ ret[1].status =
                StatusOf(StalenessRead, cfg.stalenessThresholdMinutes)
    /\ (LogHas({"staleness", "status"}) \/ ret # <<>>) => clockReads = 1

C17_Witness ==
    /\ phase = "done"
    /\ clockReads = 1
    /\ loc.status = <<"WARN">>
    /\ LogHas({"staleness"})
    /\ ret[1].staleness = ToFixed(StalenessRead, MsPerMinute, StalenessDigits)

-----------------------------------------------------------------------------
(* C18 as stated: the results are taken over in the order description,
   decimals, latestRoundData whatever the order of arrival; when more than
   one read failed, the error that surfaces is the failure of the earliest
   failed read in that order, and no later read's result is taken over. *)
EarliestFailed ==
    CHOOSE c \in FailedCalls : \A d \in FailedCalls : Rank(c) <= Rank(d)

AwaitedInOrder ==
    \A c, d \in CallNames :
        (raw[d] # <<>> /\ Rank(c) < Rank(d)) => raw[c] # <<>>

LaterNeverAwaited ==
    \A d \in CallNames : Rank(d) >= Rank(EarliestFailed) => raw[d] = <<>>

C18_EarliestFailureSurfaces ==
    /\ AwaitedInOrder
    /\ (Failing /\ Cardinality(FailedCalls) >= 2) =>
          /\ Raised("result")
          /\ err[1].about = {EarliestFailed}
          /\ LaterNeverAwaited

(* What both files do: as above, except that in part_000, which decodes
   each result before it awaits the next, a result that does not decode
   and comes earlier in the order than every failed read surfaces its
   decode error instead. *)
C18_EarliestErrorSurfaces ==
    /\ AwaitedInOrder
    /\ (Failing /\ Cardinality(FailedCalls) >= 2) =>
          /\ LaterNeverAwaited
          /\ \/ /\ Raised("result")
                /\ err[1].about = {EarliestFailed}
             \/ /\ variant = "part"
                /\ Raised("decode")
                /\ \E d \in CallNames :
                      /\ err[1].about = {d}
                      /\ Rank(d) < Rank(EarliestFailed)
                      /\ feed[d] = <<Malformed>>
    /\ (variant = "main" /\ Failing /\ FailedCalls # {}) => Raised("result")

(* decimals and latestRoundData both failed, latestRoundData answered
   first: the failure of decimals surfaces *)
C18_DecimalsSurfaces ==
    /\ phase = "failed"
    /\ FailedCalls = {"decimals", "latestRoundData"}
    /\ arrival[1] = "latestRoundData"
    /\ Raised("result")
    /\ err[1].about = {"decimals"}

-----------------------------------------------------------------------------
(* C19 as stated: on the same configuration, answers and clock reading
   main.ts and part_000 agree on whether the evaluation succeeds, on the
   status, and, when it fails, on the stage whose error surfaces. *)
Compared ==
    /\ ref # <<>>
    /\ phase \in {"done", "failed"}
    /\ variant # ref[1].variant

SameSuccess ==
    /\ (thrown = <<>>) <=> (ref[1].outcome.thrown = <<>>)
    /\ (ret = <<>>) <=> (ref[1].outcome.ret = <<>>)
    /\ (ret = <<>>) <=> (thrown # <<>>)

ErrorOf(v) == IF variant = v THEN thrown[1] ELSE ref[1].outcome.thrown[1]

CallOf(e) == CHOOSE c \in e.about : TRUE

C19_VariantsAgree ==
    Compared =>
        /\ SameSuccess
        /\ loc.status = ref[1].outcome.status
        /\ thrown # <<>> => ErrorOf("main").origin = ErrorOf("part").origin

(* What holds of the two files: they agree on success and on the status;
   on failure they agree on the error except when a result that does not
   decode comes, in the order of the awaits, before a read that failed:
   main.ts then surfaces the failed read, part_000 the decode error. *)
C19_VariantsAgreeOnOutcome ==
    Compared =>
        /\ SameSuccess
        /\ loc.status = ref[1].outcome.status
        /\ thrown # <<>> =>
              \/ ErrorOf("main") = ErrorOf("part")
              \/ /\ ErrorOf("main").origin = "result"
                 /\ ErrorOf("part").origin = "decode"
                 /\ Rank(CallOf(ErrorOf("part"))) < Rank(CallOf(ErrorOf("main")))

(* both files finished the same inputs with the same status *)
C19_BothFail ==
    /\ Compared
    /\ phase = "done"
    /\ loc.status = <<"FAIL">>
    /\ ref[1].outcome.status = <<"FAIL">>

(* the case in which the stages differ *)
C19_WitnessStagesDiffer ==
    /\ Compared
    /\ thrown # <<>>
    /\ ErrorOf("main").origin = "result"
    /\ ErrorOf("part").origin = "decode"

-----------------------------------------------------------------------------
(* C20: in main.ts every failure raised inside the handler is logged as
   exactly one "ERROR: <message>" line, the last line of the run, and the
   same error then reaches the caller; the handler never swallows it and
   never returns a summary once it logged ERROR. *)
ErrorLines == Cardinality({i \in 1..Len(log) : log[i].kind = "error"})

C20_LogThenRethrow ==
    variant = "main" =>
        /\ ErrorLines <= 1
        /\ err # <<>> => Failing
        /\ phase = "catch" => (err # <<>> /\ ErrorLines = 0 /\ thrown = <<>>)
        /\ phase = "failed" =>
              /\ err # <<>>
              /\ ErrorLines = 1
              /\ log[Len(log)] = Line("error", err[1].msg, 0, <<>>)
              /\ thrown = err
              /\ ret = <<>>
        /\ ErrorLines = 1 => (phase = "failed" /\ ret = <<>>)
        /\ phase = "done" => (ErrorLines = 0 /\ thrown = <<>> /\ ret # <<>>)

C20_Witness ==
    /\ variant = "main"
    /\ phase = "failed"
    /\ Raised("decode")
    /\ ErrorLines = 1
    /\ thrown = err
    /\ LogHas({"feedEarly"})

=============================================================================
